---- MODULE Spec2Model ----
(***************************************************************************)
(* Model of the exam-proctoring backend: the connection registry of        *)
(* backend/app/events.py (WebSocketManager), the risk scorer of            *)
(* backend/app/services/scoring.py (ScoringService) and the WebSocket      *)
(* handler, ingestion pipeline and administrative calls of                 *)
(* backend/app/main.py.                                                    *)
(*                                                                         *)
(* Two specifications share the variables:                                 *)
(*   Spec     the application: one websocket_endpoint handler per          *)
(*            connection, process_event, flag_session, suspended at every  *)
(*            send as asyncio suspends them;                               *)
(*   SpecReg  the WebSocketManager driven method by method by one caller,  *)
(*            every call running to completion.                            *)
(***************************************************************************)
EXTENDS Integers, Sequences, FiniteSets, TLC

\* ------------------------------------------------------------------ bounds
NumSessions == 2
NumWS == 2
NumCallers == 1
NumConcCallers == 2
NumRegWS == 4
MaxEvents == 1
NumIngestWS == 1
MaxIngest == 3
MaxScoreEvents == 2
MaxConcEvents == 3
MaxE2EEvents == 4
MaxE2ESeconds == 1
MaxWindowEvents == 5
MaxOrderEvents == 2
MaxTime == 12
TickMinutes == 6

Sessions == 1..NumSessions
\* websockets of the application handlers
WS == 1..NumWS
\* in-process callers of process_event (task ids after the websockets)
Callers == (NumWS + 1)..(NumWS + NumCallers)
\* the tasks that run process_event side by side
ConcCallers == (NumWS + 1)..(NumWS + NumConcCallers)
Tasks == WS \cup Callers \cup ConcCallers
\* websockets handed to the registry in SpecReg
RegWS == 1..NumRegWS
\* Python's None (and every falsy session id / websocket argument)
NoneVal == 0

\* ---------------------------------------------------------------- helpers
Restrict(f, D) == [x \in D |-> f[x]]

\* ------------------------------------------------------------------ state
VARIABLES
    active_connections,   \* WebSocketManager.active_connections: session id -> set of websockets
    connection_sessions,  \* WebSocketManager.connection_sessions: websocket -> session id
    key_order,            \* the keys of active_connections in dict (insertion) order
    accepted,             \* websockets whose accept() has completed
    active_sessions,      \* main.active_sessions: session id -> ExamSession
    now,                  \* datetime.now(), in seconds
    pc,                   \* where each task (handler or caller) is suspended
    ws_session,           \* the session_id path parameter of each handler
    frame,                \* the broadcast / reply each task is in the middle of
    flag_called,          \* session ids flag_session has flagged (history)
    last_call             \* what the last operation did (observation only)

regvars == <<active_connections, connection_sessions, key_order, accepted>>
appvars == <<active_sessions, now, pc, ws_session, frame, flag_called>>
vars == <<regvars, appvars, last_call>>

\* =========================================================== events.py
\* The registry as a value. ac is active_connections, cs is
\* connection_sessions, order lists the keys of active_connections in
\* insertion order (a Python dict iterates its keys in that order).
Reg == [ac |-> active_connections, cs |-> connection_sessions, order |-> key_order]

EmptyReg == [ac |-> <<>>, cs |-> <<>>, order |-> <<>>]

Range(s) == {s[i] : i \in 1..Len(s)}

\* A removal that drops the whole key of the session whenever it is called
discard_connection_key(reg, session_id, websocket) ==
    IF session_id \in DOMAIN reg.ac
    THEN [reg EXCEPT !.ac = Restrict(reg.ac, DOMAIN reg.ac \ {session_id}),
                     !.order = SelectSeq(reg.order, LAMBDA k : k # session_id)]
    ELSE reg

\* self.active_connections[session_id].discard(websocket), deleting the key
\* when the set becomes empty (events.py 38-40 and 60-62)
discard_connection(reg, session_id, websocket) ==
    IF session_id \in DOMAIN reg.ac
    THEN IF reg.ac[session_id] \ {websocket} = {}
         THEN [reg EXCEPT !.ac = Restrict(reg.ac, DOMAIN reg.ac \ {session_id}),
                          !.order = SelectSeq(reg.order, LAMBDA k : k # session_id)]
         ELSE [reg EXCEPT !.ac[session_id] = @ \ {websocket}]
    ELSE reg

\* del self.connection_sessions[websocket], guarded by membership
forget_connection(reg, websocket) ==
    IF websocket \in DOMAIN reg.cs
    THEN [reg EXCEPT !.cs = Restrict(reg.cs, DOMAIN reg.cs \ {websocket})]
    ELSE reg

\* WebSocketManager.connect once `await websocket.accept()` has returned
connect(reg, websocket, session_id) ==
    [ac |-> IF session_id \in DOMAIN reg.ac
            THEN [reg.ac EXCEPT ![session_id] = @ \cup {websocket}]
            ELSE [k \in DOMAIN reg.ac \cup {session_id} |->
                     IF k = session_id THEN {websocket} ELSE reg.ac[k]],
     cs |-> [x \in DOMAIN reg.cs \cup {websocket} |->
                     IF x = websocket THEN session_id ELSE reg.cs[x]],
     order |-> IF session_id \in DOMAIN reg.ac THEN reg.order
               ELSE Append(reg.order, session_id)]

\* WebSocketManager.disconnect(session_id=None, websocket=None); NoneVal is a
\* falsy argument
disconnect(reg, session_id, websocket) ==
    IF websocket # NoneVal /\ session_id # NoneVal
    THEN forget_connection(discard_connection(reg, session_id, websocket), websocket)
    ELSE IF session_id # NoneVal /\ websocket = NoneVal
    THEN IF session_id \in DOMAIN reg.ac
         THEN [ac |-> Restrict(reg.ac, DOMAIN reg.ac \ {session_id}),
               cs |-> Restrict(reg.cs, DOMAIN reg.cs \ reg.ac[session_id]),
               order |-> SelectSeq(reg.order, LAMBDA k : k # session_id)]
         ELSE reg
    ELSE IF websocket # NoneVal /\ session_id = NoneVal
    THEN IF websocket \in DOMAIN reg.cs
         THEN discard_connection(forget_connection(reg, websocket),
                                 reg.cs[websocket], websocket)
         ELSE reg
    ELSE reg

\* WebSocketManager.disconnect_websocket
disconnect_websocket(reg, websocket) ==
    IF websocket \in DOMAIN reg.cs
    THEN disconnect(reg, reg.cs[websocket], websocket)
    ELSE reg

\* `for ws in disconnected: await self.disconnect(session_id, ws)` of
\* send_personal_message; disconnected is the list of failed websockets
RECURSIVE cleanup_session(_, _, _)
cleanup_session(reg, session_id, disconnected) ==
    IF disconnected = <<>> THEN reg
    ELSE cleanup_session(disconnect(reg, session_id, Head(disconnected)),
                         session_id, Tail(disconnected))

\* `for session_id, ws in disconnected: await self.disconnect(session_id, ws)`
\* of broadcast; disconnected is the list of (session_id, websocket) pairs
RECURSIVE cleanup_pairs(_, _)
cleanup_pairs(reg, disconnected) ==
    IF disconnected = <<>> THEN reg
    ELSE cleanup_pairs(disconnect(reg, Head(disconnected)[1], Head(disconnected)[2]),
                       Tail(disconnected))

\* The orders in which a `for` loop can walk a set (Python fixes one by the
\* hash table's layout; any order is possible)
RECURSIVE Orders(_)
Orders(S) ==
    IF S = {} THEN {<<>>}
    ELSE UNION {{<<x>> \o o : o \in Orders(S \ {x})} : x \in S}

\* A send_personal_message that takes every registered websocket as target
personal_targets_all(reg, session_id) ==
    UNION {reg.ac[k] : k \in DOMAIN reg.ac}

\* The websockets send_personal_message(message, session_id) iterates:
\* self.active_connections[session_id] when the key is present
personal_targets(reg, session_id) ==
    IF session_id \in DOMAIN reg.ac THEN reg.ac[session_id] ELSE {}

\* A send loop without the try/except around each send: the first failing
\* send_text propagates and ends the loop
RECURSIVE send_loop_unguarded(_, _, _, _)
send_loop_unguarded(order, failing, attempted, disconnected) ==
    IF order = <<>>
    THEN [attempted |-> attempted, disconnected |-> disconnected, raised |-> FALSE]
    ELSE IF Head(order) \in failing
         THEN [attempted |-> Append(attempted, Head(order)),
               disconnected |-> disconnected, raised |-> TRUE]
         ELSE send_loop_unguarded(Tail(order), failing,
                                  Append(attempted, Head(order)), disconnected)

\* The send loop of send_personal_message run to completion over the walk
\* `order` of the session's set; `failing` are the websockets whose send_text
\* raises. Returns the sends attempted and the list `disconnected`.
RECURSIVE send_loop(_, _, _, _)
send_loop(order, failing, attempted, disconnected) ==
    IF order = <<>>
    THEN [attempted |-> attempted, disconnected |-> disconnected, raised |-> FALSE]
    ELSE IF Head(order) \in failing
         THEN send_loop(Tail(order), failing, Append(attempted, Head(order)),
                        Append(disconnected, Head(order)))
         ELSE send_loop(Tail(order), failing, Append(attempted, Head(order)),
                        disconnected)

\* A send_personal_message without the membership test of line 79:
\* self.active_connections[session_id] raises KeyError for an absent key
send_personal_message_unchecked(reg, session_id, order, failing) ==
    LET r == send_loop(order, failing, <<>>, <<>>) IN
    [reg |-> cleanup_session(reg, session_id, r.disconnected),
     attempted |-> r.attempted,
     disconnected |-> r.disconnected,
     raised |-> session_id \notin DOMAIN reg.ac]

\* WebSocketManager.send_personal_message run to completion
send_personal_message(reg, session_id, order, failing) ==
    LET r == send_loop(order, failing, <<>>, <<>>) IN
    [reg |-> IF r.raised THEN reg
             ELSE cleanup_session(reg, session_id, r.disconnected),
     attempted |-> r.attempted,
     disconnected |-> r.disconnected,
     raised |-> r.raised]

\* list(connections): the copy of a key's set the inner loop of broadcast
\* walks, in one of the set's orders
RECURSIVE list(_)
list(S) ==
    IF S = {} THEN <<>>
    ELSE LET x == CHOOSE y \in S : TRUE IN <<x>> \o list(S \ {x})

\* The (session_id, websocket) pairs the loops of broadcast visit: the keys
\* in dict order, each key's list copy in turn
RECURSIVE broadcast_walk(_, _)
broadcast_walk(reg, keys) ==
    IF keys = <<>> THEN <<>>
    ELSE LET k == Head(keys)
             o == list(reg.ac[k])
         IN [i \in 1..Len(o) |-> <<k, o[i]>>] \o broadcast_walk(reg, Tail(keys))

\* A broadcast without the try/except around each send: the first failing
\* send_text propagates, the walk ends there and nothing is cleaned up
broadcast_unguarded(reg, failing) ==
    LET walk == broadcast_walk(reg, reg.order)
        bad == {i \in 1..Len(walk) : walk[i][2] \in failing}
        stop == IF bad = {} THEN Len(walk)
                ELSE CHOOSE i \in bad : \A j \in bad : i <= j
    IN [reg |-> reg,
        attempted |-> SubSeq(walk, 1, stop),
        disconnected |-> <<>>,
        raised |-> bad # {}]

\* WebSocketManager.broadcast run to completion
broadcast(reg, failing) ==
    LET walk == broadcast_walk(reg, reg.order)
        disconnected == SelectSeq(walk, LAMBDA p : p[2] \in failing)
    IN [reg |-> cleanup_pairs(reg, disconnected),
        attempted |-> walk,
        disconnected |-> disconnected,
        raised |-> FALSE]

\* =================================================== models/schemas.py
\* The values of the EventType enumeration
EventTypeValues ==
    {"gaze_left", "gaze_right", "gaze_up", "gaze_down",
     "head_turn_left", "head_turn_right", "head_tilt",
     "multiple_faces", "no_face", "phone_detected",
     "speech_detected", "multiple_voices", "banned_keywords",
     "tab_switch", "window_blur", "copy_paste", "right_click",
     "keyboard_shortcut", "screen_share_stopped",
     "suspicious_movement", "unknown"}

\* EventType(value): the enumeration looks the string up among its values,
\* case-sensitively, and raises ValueError for any other string
EventType(value) ==
    IF value \in EventTypeValues THEN [ok |-> TRUE, value |-> value]
    ELSE [ok |-> FALSE, value |-> "ValueError"]

\* ================================================= services/scoring.py
time_decay_minutes == 10

\* time_diff.total_seconds() / (self.time_decay_minutes * 60): the window in
\* seconds
SecondsPerMinute == 60
window_seconds == time_decay_minutes * SecondsPerMinute

\* ScoringService.event_weights, with .get(event_type, 1)
event_weights(event_type) ==
    CASE event_type \in {"gaze_left", "gaze_right", "head_turn_left", "head_turn_right"} -> 2
      [] event_type \in {"gaze_down", "speech_detected", "right_click"} -> 3
      [] event_type = "gaze_up" -> 1
      [] event_type \in {"multiple_faces", "copy_paste"} -> 8
      [] event_type \in {"no_face", "keyboard_shortcut"} -> 5
      [] event_type = "phone_detected" -> 10
      [] event_type = "multiple_voices" -> 7
      [] event_type = "banned_keywords" -> 15
      [] event_type = "tab_switch" -> 6
      [] event_type \in {"window_blur", "suspicious_movement"} -> 4
      [] event_type = "screen_share_stopped" -> 12
      [] OTHER -> 1

\* Scores are exact fractions over ScoreDen: confidence is kept in tenths,
\* the severity multiplier in halves, the time factor in units of
\* 1/(10 * window_seconds).
ScoreDen == 10 * 2 * (10 * window_seconds)

\* severity_multiplier, in halves: {"LOW": 0.5, ...}.get(event.severity, 1.0)
severity_multiplier2(severity) ==
    CASE severity = "LOW" -> 1
      [] severity = "MEDIUM" -> 2
      [] severity = "HIGH" -> 3
      [] severity = "CRITICAL" -> 4
      [] OTHER -> 2

Max(a, b) == IF a >= b THEN a ELSE b
Min(a, b) == IF a <= b THEN a ELSE b

\* time_factor = max(0.3, 1 - elapsed / window), in units of 1/(10 * window)
time_factor(elapsed) ==
    Max(3 * window_seconds, 10 * (window_seconds - elapsed))

\* recent_events: current_time - event.timestamp <= timedelta(minutes=10)
recent_events(events, current_time) ==
    SelectSeq(events, LAMBDA e : current_time - e.timestamp <= window_seconds)

\* the base score loop: sum of weight * confidence * severity * time factor
RECURSIVE base_score(_, _)
base_score(events, current_time) ==
    IF events = <<>> THEN 0
    ELSE LET e == Head(events) IN
         event_weights(e.event_type) * e.confidence
             * severity_multiplier2(e.severity)
             * time_factor(current_time - e.timestamp)
         + base_score(Tail(events), current_time)

\* ScoringService._calculate_frequency_penalties, as a numerator over ScoreDen
calculate_frequency_penalties(events) ==
    LET types == {events[i].event_type : i \in 1..Len(events)}
        count(t) == Cardinality({i \in 1..Len(events) : events[i].event_type = t})
        pen[T \in SUBSET types] ==
            IF T = {} THEN 0
            ELSE LET t == CHOOSE x \in T : TRUE IN
                 (IF count(t) > 3
                  THEN event_weights(t) * (count(t) - 3) * (ScoreDen \div 2)
                  ELSE 0) + pen[T \ {t}]
    IN pen[types]

\* A conversion that rounds the fraction n / ScoreDen to the nearest integer
int_round(n) == (2 * n + ScoreDen) \div (2 * ScoreDen)

\* Python's int(x) of the fraction n / ScoreDen: truncation toward zero
int_trunc(n) == IF n >= 0 THEN n \div ScoreDen ELSE -((-n) \div ScoreDen)

\* ScoringService.calculate_risk_score(events) at datetime.now() = current_time
calculate_risk_score(events, current_time) ==
    IF events = <<>> THEN 0
    ELSE LET recent == recent_events(events, current_time)
             total_score == base_score(recent, current_time)
                            + calculate_frequency_penalties(recent)
         IN Min(int_trunc(total_score), 100)

\* =================================================================== db.py
\* Database.store_event and Database.update_session are plain `def`s: a call
\* runs the write (swallowing its own errors, db.py 33-35 and 59-61) and
\* returns None
store_event == NoneVal
update_session == NoneVal

\* `await v`: awaiting a value that is not awaitable raises TypeError
await(v) == IF v = NoneVal THEN "TypeError" ELSE "ok"

\* WebSocketManager.is_session_connected (events.py 116-118)
is_session_connected(reg, session_id) ==
    /\ session_id \in DOMAIN reg.ac
    /\ Cardinality(reg.ac[session_id]) > 0

\* ================================================================ Init
NoFrame == [kind |-> "none"]

Init ==
    /\ active_connections = <<>>
    /\ connection_sessions = <<>>
    /\ key_order = <<>>
    /\ accepted = {}
    /\ active_sessions = <<>>
    /\ now = 0
    /\ pc = [t \in Tasks |-> IF t \in WS THEN "new" ELSE "idle"]
    /\ ws_session = [w \in WS |-> NoneVal]
    /\ frame = [t \in Tasks |-> NoFrame]
    /\ flag_called = {}
    /\ last_call = [op |-> "init"]

SetReg(reg) ==
    /\ active_connections' = reg.ac
    /\ connection_sessions' = reg.cs
    /\ key_order' = reg.order

\* ===================================== SpecReg: the registry, call by call
\* connect(websocket, session_id) for a connection that has not been accepted
\* yet: a WebSocket is accepted once, websocket_endpoint calls connect first
\* thing on the connection it is handed (main.py 48).
RegConnect(w, s) ==
    /\ w \notin accepted
    /\ accepted' = accepted \cup {w}
    /\ SetReg(connect(Reg, w, s))
    /\ last_call' = [op |-> "connect", sid |-> s, ws |-> w]
    /\ UNCHANGED appvars

\* disconnect with any combination of arguments, present or None
RegDisconnect(s, w) ==
    /\ SetReg(disconnect(Reg, s, w))
    /\ last_call' = [op |-> "disconnect", sid |-> s, ws |-> w, pre |-> Reg]
    /\ UNCHANGED <<accepted, appvars>>

RegDisconnectWebsocket(w) ==
    /\ SetReg(disconnect_websocket(Reg, w))
    /\ last_call' = [op |-> "disconnect_websocket", sid |-> NoneVal, ws |-> w, pre |-> Reg]
    /\ UNCHANGED <<accepted, appvars>>

\* send_personal_message(message, session_id); failing are the websockets
\* whose send_text raises during the call
RegSendPersonalMessage(s, failing) ==
    /\ \E order \in Orders(personal_targets(Reg, s)) :
         LET r == send_personal_message(Reg, s, order, failing) IN
         /\ SetReg(r.reg)
         /\ last_call' = [op |-> "send_personal_message", sid |-> s,
                          pre |-> Reg,
                          failing |-> failing \cap personal_targets(Reg, s),
                          attempted |-> Range(r.attempted),
                          sent |-> Range(r.attempted) \ failing,
                          raised |-> r.raised]
    /\ UNCHANGED <<accepted, appvars>>

\* broadcast(message)
RegBroadcast(failing) ==
    /\ LET r == broadcast(Reg, failing) IN
         /\ SetReg(r.reg)
         /\ last_call' = [op |-> "broadcast", sid |-> NoneVal,
                          pre |-> Reg,
                          failing |-> failing,
                          attempted |-> {p[2] : p \in Range(r.attempted)},
                          sent |-> {p[2] : p \in Range(r.attempted)} \ failing,
                          raised |-> r.raised]
    /\ UNCHANGED <<accepted, appvars>>

NextReg ==
    \/ \E w \in RegWS, s \in Sessions : RegConnect(w, s)
    \/ \E s \in Sessions \cup {NoneVal}, w \in RegWS \cup {NoneVal} : RegDisconnect(s, w)
    \/ \E w \in RegWS : RegDisconnectWebsocket(w)
    \/ \E s \in Sessions : \E failing \in SUBSET personal_targets(Reg, s) :
          RegSendPersonalMessage(s, failing)
    \/ \E failing \in SUBSET UNION {active_connections[k] : k \in DOMAIN active_connections} :
          RegBroadcast(failing)

SpecReg == Init /\ [][NextReg]_vars

\* ============== SpecReconnect: connect called again for a registered websocket
\* connect(websocket, session_id) for a websocket that was accepted before.
\* Whether the second `await websocket.accept()` (events.py 17) returns or
\* raises is decided by the websocket object, which is not part of this
\* code: both outcomes are possible. Here it returns and lines 20-24 run.
RegReconnect(w, s) ==
    /\ w \in accepted
    /\ SetReg(connect(Reg, w, s))
    /\ last_call' = [op |-> "reconnect", sid |-> s, ws |-> w, pre |-> Reg,
                     raised |-> FALSE]
    /\ UNCHANGED <<accepted, appvars>>

\* Here accept() raises: connect ends at line 17, the registry is untouched
RegReconnectRefused(w, s) ==
    /\ w \in accepted
    /\ last_call' = [op |-> "reconnect", sid |-> s, ws |-> w, pre |-> Reg,
                     raised |-> TRUE]
    /\ UNCHANGED <<regvars, appvars>>

NextReconnect ==
    \/ \E w \in WS, s \in Sessions : RegConnect(w, s)
    \/ \E w \in WS, s \in Sessions : RegReconnect(w, s)
    \/ \E w \in WS, s \in Sessions : RegReconnectRefused(w, s)
    \/ \E s \in Sessions \cup {NoneVal}, w \in WS \cup {NoneVal} : RegDisconnect(s, w)
    \/ \E w \in WS : RegDisconnectWebsocket(w)

SpecReconnect == Init /\ [][NextReconnect]_vars

\* A status ladder with inclusive thresholds
classify_inclusive(new_score) ==
    IF new_score >= 15 THEN "HIGH_RISK"
    ELSE IF new_score >= 8 THEN "MODERATE_RISK"
    ELSE "LOW_RISK"

\* A status ladder whose top rung flags the session by itself
classify_autoflag(new_score) ==
    IF new_score > 15 THEN "FLAGGED"
    ELSE IF new_score > 8 THEN "MODERATE_RISK"
    ELSE "LOW_RISK"

\* ============================================================= main.py
\* The status ladder of process_event (main.py 210-215)
classify(new_score) ==
    IF new_score > 15 THEN "HIGH_RISK"
    ELSE IF new_score > 8 THEN "MODERATE_RISK"
    ELSE "LOW_RISK"

\* ExamSession(risk_score=0, status="ACTIVE", events=[]) (main.py 52-59)
NewSession == [risk_score |-> 0, status |-> "ACTIVE", events |-> <<>>]

\* event_data.get(key, default) on the decoded payload
Get(event_data, key, default) ==
    IF key \in DOMAIN event_data THEN event_data[key] ELSE default

\* A process_event whose persistence write is not in a try of its own: the
\* error reaches the outer handler (main.py 252) and the broadcast is skipped
process_event_db_abort(sessions, session_id, event_data, current_time) ==
    IF session_id \notin DOMAIN sessions
    THEN [sessions |-> sessions, appended |-> FALSE, scored |-> FALSE,
          db_error |-> FALSE, broadcast |-> FALSE]
    ELSE LET event_type == EventType(Get(event_data, "type", "UNKNOWN")) IN
         IF ~event_type.ok
         THEN [sessions |-> sessions, appended |-> FALSE, scored |-> FALSE,
               db_error |-> FALSE, broadcast |-> FALSE]
         ELSE LET session == sessions[session_id]
                  event == [event_type |-> event_type.value,
                            confidence |-> Get(event_data, "confidence", 5),
                            severity |-> Get(event_data, "severity", "LOW"),
                            timestamp |-> current_time]
                  events == Append(session.events, event)
                  new_score == calculate_risk_score(events, current_time)
                  db_error == \/ await(store_event) = "TypeError"
                              \/ await(update_session) = "TypeError"
              IN [sessions |-> [sessions EXCEPT ![session_id] =
                                   [risk_score |-> new_score,
                                    status |-> classify(new_score),
                                    events |-> events]],
                  appended |-> TRUE,
                  scored |-> TRUE,
                  old_status |-> session.status,
                  db_error |-> db_error,
                  broadcast |-> ~db_error,
                  update_data |-> [type |-> "session_update",
                                   sid |-> session_id,
                                   event_count |-> Len(events)]]

\* A process_event that writes back a list holding only its own event,
\* losing the events appended before it
process_event_stale_list(sessions, session_id, event_data, current_time) ==
    IF session_id \notin DOMAIN sessions
    THEN [sessions |-> sessions, appended |-> FALSE, scored |-> FALSE,
          db_error |-> FALSE, broadcast |-> FALSE]
    ELSE LET event_type == EventType(Get(event_data, "type", "UNKNOWN")) IN
         IF ~event_type.ok
         THEN [sessions |-> sessions, appended |-> FALSE, scored |-> FALSE,
               db_error |-> FALSE, broadcast |-> FALSE]
         ELSE LET session == sessions[session_id]
                  event == [event_type |-> event_type.value,
                            confidence |-> Get(event_data, "confidence", 5),
                            severity |-> Get(event_data, "severity", "LOW"),
                            timestamp |-> current_time]
                  events == <<event>>
                  new_score == calculate_risk_score(events, current_time)
              IN [sessions |-> [sessions EXCEPT ![session_id] =
                                   [risk_score |-> new_score,
                                    status |-> classify(new_score),
                                    events |-> events]],
                  appended |-> TRUE,
                  scored |-> TRUE,
                  old_status |-> session.status,
                  db_error |-> \/ await(store_event) = "TypeError"
                               \/ await(update_session) = "TypeError",
                  broadcast |-> TRUE,
                  update_data |-> [type |-> "session_update",
                                   sid |-> session_id,
                                   event_count |-> Len(events)]]

\* process_event up to the first suspension (main.py 183-245): look the
\* session up, build the event, append it, rescore, reclassify, attempt the
\* persistence write, build the session_update. Nothing here awaits: the
\* `await db.store_event(event)` awaits the None that the synchronous
\* Database.store_event returned, which raises TypeError on the spot, is caught
\* on line 224 and skips db.update_session.
\* Returns the new active_sessions and what happened.
process_event(sessions, session_id, event_data, current_time) ==
    IF session_id \notin DOMAIN sessions
    THEN [sessions |-> sessions, appended |-> FALSE, scored |-> FALSE,
          db_error |-> FALSE, broadcast |-> FALSE]
    ELSE LET event_type == EventType(Get(event_data, "type", "UNKNOWN")) IN
         IF ~event_type.ok
         THEN [sessions |-> sessions, appended |-> FALSE, scored |-> FALSE,
               db_error |-> FALSE, broadcast |-> FALSE]
         ELSE LET session == sessions[session_id]
                  event == [event_type |-> event_type.value,
                            confidence |-> Get(event_data, "confidence", 5),
                            severity |-> Get(event_data, "severity", "LOW"),
                            timestamp |-> current_time]
                  events == Append(session.events, event)
                  new_score == calculate_risk_score(events, current_time)
              IN [sessions |-> [sessions EXCEPT ![session_id] =
                                   [risk_score |-> new_score,
                                    status |-> classify(new_score),
                                    events |-> events]],
                  appended |-> TRUE,
                  scored |-> TRUE,
                  old_status |-> session.status,
                  db_error |-> \/ await(store_event) = "TypeError"
                               \/ await(update_session) = "TypeError",
                  broadcast |-> TRUE,
                  update_data |-> [type |-> "session_update",
                                   sid |-> session_id,
                                   event_count |-> Len(events)]]

\* ---- WebSocketManager.broadcast, suspended at each `await send_text`
\* A frame is the state of one running broadcast: the message, the dict size
\* the key iterator saw when it was created, the keys it has yielded, the key
\* and the rest of the list copy `list(connections)` being walked, the
\* websocket whose send is awaited and the list `disconnected`. The fields
\* session, stayed and got observe the run: the session of the message, its
\* connections registered throughout, the websockets the message reached.
\* bc_next runs the loops from one send to the next: the possible
\* continuations.
bc_next(fr, reg) ==
    IF fr.rest # {}
    THEN {[kind |-> "send",
           frame |-> [fr EXCEPT !.pending = x, !.rest = @ \ {x}]] : x \in fr.rest}
    ELSE IF Len(reg.order) # fr.size0
    THEN {[kind |-> "RuntimeError"]}   \* dictionary changed size during iteration
    ELSE LET left == SelectSeq(reg.order, LAMBDA k : k \notin fr.visited) IN
         IF left = <<>>
         THEN {[kind |-> "done"]}
         ELSE LET k == Head(left) IN
              {[kind |-> "send",
                frame |-> [fr EXCEPT !.visited = @ \cup {k}, !.cur = k,
                                     !.pending = x, !.rest = reg.ac[k] \ {x}]]
                 : x \in reg.ac[k]}

\* the frame at `for session_id, connections in self.active_connections.items()`
bc_start(update_data, reg) ==
    [kind |-> "broadcast", msg |-> update_data, size0 |-> Len(reg.order),
     visited |-> {}, cur |-> NoneVal, rest |-> {}, pending |-> NoneVal,
     disconnected |-> <<>>,
     stayed |-> personal_targets(reg, update_data.sid), got |-> {}]

\* main.py 117-127: the dispatcher sends the event_processed acknowledgment
\* as soon as its process_event call has returned, whatever the call did; an
\* in-process caller sends nothing
ack_type(t, returned) ==
    IF t \in WS /\ returned THEN "event_processed" ELSE "none"

\* what a task does when its process_event call has returned: a handler
\* sends the event_processed acknowledgment (main.py 120-127) and waits for
\* the next message, an in-process caller is done
AfterProcessEvent(t) ==
    /\ pc' = [pc EXCEPT ![t] = IF t \in WS THEN "recv" ELSE "idle"]
    /\ frame' = [frame EXCEPT ![t] = NoFrame]

\* process_event(session_id, event_data), called by task t: the call up to
\* its first awaited send, or to its end when it sends nothing
CallProcessEvent(t, session_id, event_data) ==
    LET r == process_event(active_sessions, session_id, event_data, now) IN
    /\ active_sessions' = r.sessions
    /\ IF r.broadcast
       THEN \E n \in bc_next(bc_start(r.update_data, Reg), Reg) :
                 IF n.kind = "send"
                 THEN /\ pc' = [pc EXCEPT ![t] = "bcast"]
                      /\ frame' = [frame EXCEPT ![t] = n.frame]
                 ELSE AfterProcessEvent(t)
       ELSE AfterProcessEvent(t)
    /\ last_call' = [op |-> "process_event", sid |-> session_id,
                     by |-> IF t \in WS THEN "websocket_endpoint" ELSE "caller",
                     msg |-> Get(event_data, "type", "unknown"),
                     appended |-> r.appended, db_error |-> r.db_error,
                     reply |-> ack_type(t, pc'[t] # "bcast")]

\* ---- websocket_endpoint
\* The decoded messages a client sends; [json |-> FALSE] is a payload that is
\* not JSON
BehavioralTypes ==
    {"suspicious_event", "MULTIPLE_FACES", "HEAD_MOVEMENT", "AUDIO_DETECTION",
     "FACE_NOT_DETECTED", "UNKNOWN"}

ClientMessages ==
    {[json |-> TRUE, type |-> t] :
        t \in BehavioralTypes \cup {"heartbeat", "ping", "pong", "gaze_left"}}
    \cup {[json |-> FALSE]}

\* message_type = event_data.get('type', 'unknown') of a JSON message
\* (main.py 82-83); "non-json" stands for a payload json.loads rejects
message_type(m) == IF m.json THEN Get(m, "type", "unknown") ELSE "non-json"

\* main.py 114: the message enters process_event
is_behavioral(m) == IF m.json THEN m.type \in BehavioralTypes ELSE FALSE

\* A dispatcher that leaves heartbeat and ping unanswered
reply_type_no_pong(m) ==
    IF ~m.json THEN "error"
    ELSE IF m.type \in {"heartbeat", "ping", "pong"} THEN "none"
    ELSE "message_received"

\* A dispatcher that drops a message of unknown type without acknowledgment
reply_type_drop(m) ==
    IF ~m.json THEN "error"
    ELSE IF m.type \in {"heartbeat", "ping"} THEN "pong"
    ELSE "none"

\* the reply the dispatcher sends for a message that does not enter
\* process_event (main.py 87-112, 130-149)
reply_type(m) ==
    IF ~m.json THEN "error"
    ELSE IF m.type \in {"heartbeat", "ping"} THEN "pong"
    ELSE IF m.type = "pong" THEN "none"
    ELSE "message_received"

\* A session resolution that constructs the session anew on every connect
resolve_session_reset(sessions, session_id) ==
    [k \in DOMAIN sessions \cup {session_id} |->
        IF k = session_id THEN NewSession ELSE sessions[k]]

\* main.py 51-63: create the session when the id is new, otherwise reuse it
\* and set its status to ACTIVE
resolve_session(sessions, session_id) ==
    IF session_id \notin DOMAIN sessions
    THEN [k \in DOMAIN sessions \cup {session_id} |->
             IF k = session_id THEN NewSession ELSE sessions[k]]
    ELSE [sessions EXCEPT ![session_id].status = "ACTIVE"]

\* main.py 48-63: accept, register, create the session or reuse it
WsConnect(w, s) ==
    /\ pc[w] = "new"
    /\ accepted' = accepted \cup {w}
    /\ SetReg(connect(Reg, w, s))
    /\ active_sessions' = resolve_session(active_sessions, s)
    /\ ws_session' = [ws_session EXCEPT ![w] = s]
    /\ pc' = [pc EXCEPT ![w] = "init"]
    /\ last_call' = [op |-> "connect", sid |-> s]
    /\ UNCHANGED <<now, frame, flag_called>>

\* main.py 66-74: session_initialized is sent
WsInit(w) ==
    /\ pc[w] = "init"
    /\ pc' = [pc EXCEPT ![w] = "recv"]
    /\ last_call' = [op |-> "session_initialized", sid |-> ws_session[w]]
    /\ UNCHANGED <<regvars, active_sessions, now, ws_session, frame, flag_called>>

\* main.py 73 raises: the send is outside the try, the handler ends with the
\* connection still registered
WsInitFails(w) ==
    /\ pc[w] = "init"
    /\ pc' = [pc EXCEPT ![w] = "dead"]
    /\ last_call' = [op |-> "init_failed", sid |-> ws_session[w]]
    /\ UNCHANGED <<regvars, active_sessions, now, ws_session, frame, flag_called>>

\* A receive loop that ends the handler on a payload that is not JSON
WsReceive_closing(w, m) ==
    /\ pc[w] = "recv"
    /\ ~is_behavioral(m)
    /\ last_call' = [op |-> "receive", sid |-> ws_session[w], msg |-> message_type(m),
                     reply |-> reply_type(m)]
    /\ IF m.json
       THEN UNCHANGED <<regvars, appvars>>
       ELSE /\ SetReg(disconnect(Reg, ws_session[w], w))
            /\ pc' = [pc EXCEPT ![w] = "closed"]
            /\ UNCHANGED <<accepted, active_sessions, now, ws_session, frame,
                           flag_called>>

\* main.py 79-112 and 130-149: a message that does not enter process_event
\* is received and its reply sent
WsReceive(w, m) ==
    /\ pc[w] = "recv"
    /\ ~is_behavioral(m)
    /\ last_call' = [op |-> "receive", sid |-> ws_session[w], msg |-> message_type(m),
                     reply |-> reply_type(m)]
    /\ UNCHANGED <<regvars, appvars>>

\* main.py 114-128: a behavioral message is received and handed to
\* process_event
WsReceiveEvent(w, m) ==
    /\ pc[w] = "recv"
    /\ is_behavioral(m)
    /\ CallProcessEvent(w, ws_session[w], m)
    /\ UNCHANGED <<regvars, now, ws_session, flag_called>>

\* Outer handlers that unregister by session id alone
HandlerExit_session(w, status) ==
    /\ SetReg(disconnect(Reg, ws_session[w], NoneVal))
    /\ active_sessions' =
          IF ws_session[w] \in DOMAIN active_sessions
          THEN [active_sessions EXCEPT ![ws_session[w]].status = status]
          ELSE active_sessions
    /\ pc' = [pc EXCEPT ![w] = "closed"]
    /\ frame' = [frame EXCEPT ![w] = NoFrame]
    /\ UNCHANGED <<accepted, now, ws_session, flag_called>>

\* main.py 163-177: the two outer handlers; status is "DISCONNECTED" on
\* WebSocketDisconnect and "ERROR" on any other exception
HandlerExit(w, status) ==
    /\ SetReg(disconnect(Reg, ws_session[w], w))
    /\ active_sessions' =
          IF ws_session[w] \in DOMAIN active_sessions
          THEN [active_sessions EXCEPT ![ws_session[w]].status = status]
          ELSE active_sessions
    /\ pc' = [pc EXCEPT ![w] = "closed"]
    /\ frame' = [frame EXCEPT ![w] = NoFrame]
    /\ UNCHANGED <<accepted, now, ws_session, flag_called>>

\* receive_text raises WebSocketDisconnect (main.py 79, 163-169)
WsDisconnect(w) ==
    /\ pc[w] = "recv"
    /\ HandlerExit(w, "DISCONNECTED")
    /\ last_call' = [op |-> "handler_disconnect", sid |-> ws_session[w]]

\* a reply (pong, event_processed, message_received, error) raises: the error
\* message of the inner handlers (main.py 141-161) raises as well and the
\* exception reaches the outer handlers, as WebSocketDisconnect or as another
\* exception
WsReplyFails(w, status) ==
    /\ pc[w] = "recv"
    /\ HandlerExit(w, status)
    /\ last_call' = [op |-> "handler_error", sid |-> ws_session[w]]

\* send_text to x raises when its handler has ended, and may raise on a
\* connection whose handler has not noticed yet that the client is gone
SendOutcomes(x) == IF pc[x] \in {"closed", "dead"} THEN {FALSE} ELSE {TRUE, FALSE}

\* one awaited send_text of a running broadcast completes, and the loops run
\* on to the next send, to the end of the call or to the exception
BroadcastStep(t) ==
    /\ pc[t] = "bcast"
    /\ \E ok \in SendOutcomes(frame[t].pending) :
       LET fr == frame[t]
           x == fr.pending
           fr1 == [fr EXCEPT
                     !.disconnected = IF ok THEN @ ELSE Append(@, <<fr.cur, x>>),
                     !.got = IF ok THEN @ \cup {x} ELSE @,
                     !.stayed = @ \cap personal_targets(Reg, fr.msg.sid)]
       IN \E n \in bc_next(fr1, Reg) :
            LET reg1 == IF n.kind = "done" THEN cleanup_pairs(Reg, fr1.disconnected)
                        ELSE Reg
            IN
            /\ IF n.kind = "send"
               THEN /\ pc' = pc
                    /\ frame' = [frame EXCEPT ![t] = n.frame]
               ELSE AfterProcessEvent(t)
            /\ SetReg(reg1)
            /\ last_call' = [op |-> "session_update", sid |-> fr.msg.sid,
                             to |-> x, to_sid |-> fr.cur, sent |-> ok,
                             outcome |-> n.kind,
                             stayed |-> fr1.stayed \cap personal_targets(reg1, fr.msg.sid),
                             got |-> fr1.got,
                             reply |-> ack_type(t, n.kind # "send")]
    /\ UNCHANGED <<accepted, active_sessions, now, ws_session, flag_called>>

\* ---- in-process calls
\* The payloads handed to process_event directly
EventPayloads ==
    {[type |-> "gaze_left"],
     [type |-> "multiple_faces", confidence |-> 9, severity |-> "HIGH"],
     [type |-> "multiple_faces", confidence |-> -10, severity |-> "HIGH"],
     [type |-> "banned_keywords", confidence |-> 40, severity |-> "CRITICAL"],
     [type |-> "suspicious_event", confidence |-> 9]}

RECURSIVE SumLen(_)
SumLen(S) ==
    IF S = {} THEN 0
    ELSE LET s == CHOOSE x \in S : TRUE IN
         Len(active_sessions[s].events) + SumLen(S \ {s})

\* process_event(session_id, event_data) called by an in-process caller
ProcessEventCall(c, s, event_data) ==
    /\ pc[c] = "idle"
    /\ CallProcessEvent(c, s, event_data)
    /\ UNCHANGED <<regvars, now, ws_session, flag_called>>

\* A flag_session that constructs the session it does not find
flag_session_creating(sessions, session_id) ==
    [sessions |-> [k \in DOMAIN sessions \cup {session_id} |->
                      IF k = session_id THEN [NewSession EXCEPT !.status = "FLAGGED"]
                      ELSE sessions[k]],
     status_code |-> 500,
     session_flagged |-> FALSE]

\* flag_session(session_id) (main.py 297-319): 404 for an unknown id;
\* otherwise the status is set and `await db.update_session(session)` is
\* evaluated. update_session returned None, the await raises TypeError, the
\* call ends at line 306 with a 500 and lines 308-319, the session_flagged
\* broadcast among them, do not run.
flag_session(sessions, session_id) ==
    IF session_id \notin DOMAIN sessions
    THEN [sessions |-> sessions, status_code |-> 404, session_flagged |-> FALSE]
    ELSE LET flagged == [sessions EXCEPT ![session_id].status = "FLAGGED"] IN
         IF await(update_session) = "TypeError"
         THEN [sessions |-> flagged, status_code |-> 500, session_flagged |-> FALSE]
         ELSE [sessions |-> flagged, status_code |-> 200, session_flagged |-> TRUE]

\* POST /api/sessions/{session_id}/flag
FlagSession(s) ==
    LET r == flag_session(active_sessions, s) IN
    /\ active_sessions' = r.sessions
    /\ flag_called' = IF r.status_code = 404 THEN flag_called ELSE flag_called \cup {s}
    /\ last_call' = [op |-> "flag_session", sid |-> s,
                     status_code |-> r.status_code,
                     session_flagged |-> r.session_flagged]
    /\ UNCHANGED <<regvars, now, pc, ws_session, frame>>

\* get_session_events(session_id) (main.py 273-295): 404 for an unknown id,
\* otherwise the last 20 events are read
get_session_events(sessions, session_id) ==
    IF session_id \notin DOMAIN sessions
    THEN [status_code |-> 404, total |-> 0]
    ELSE [status_code |-> 200, total |-> Len(sessions[session_id].events)]

\* GET /api/sessions/{session_id}/events
GetSessionEvents(s) ==
    LET r == get_session_events(active_sessions, s) IN
    /\ last_call' = [op |-> "get_session_events", sid |-> s,
                     status_code |-> r.status_code]
    /\ UNCHANGED <<regvars, appvars>>

\* datetime.now() advances
Tick ==
    /\ now + TickMinutes * SecondsPerMinute <= MaxTime * SecondsPerMinute
    /\ now' = now + TickMinutes * SecondsPerMinute
    /\ last_call' = [op |-> "tick"]
    /\ UNCHANGED <<regvars, active_sessions, pc, ws_session, frame, flag_called>>

Next ==
    \/ \E w \in WS, s \in Sessions : WsConnect(w, s)
    \/ \E w \in WS : WsInit(w)
    \/ \E w \in WS : WsInitFails(w)
    \/ \E w \in WS, m \in ClientMessages : WsReceive(w, m)
    \/ \E w \in WS, m \in ClientMessages : WsReceiveEvent(w, m)
    \/ \E w \in WS : WsDisconnect(w)
    \/ \E w \in WS, status \in {"DISCONNECTED", "ERROR"} : WsReplyFails(w, status)
    \/ \E t \in Tasks : BroadcastStep(t)
    \/ \E c \in Callers, s \in Sessions, p \in EventPayloads :
          SumLen(DOMAIN active_sessions) < MaxEvents /\ ProcessEventCall(c, s, p)
    \/ \E s \in Sessions : FlagSession(s)
    \/ \E s \in Sessions : GetSessionEvents(s)

\* The application with NumWS connections over NumSessions sessions
Spec == Init /\ [][Next]_vars

\* The application with NumIngestWS connections to session 1, longer event
\* sequences and the clock advancing
IngestWS == 1..NumIngestWS

NextIngest ==
    \/ \E w \in IngestWS : WsConnect(w, 1)
    \/ \E w \in IngestWS : WsInit(w)
    \/ \E w \in IngestWS : WsInitFails(w)
    \/ \E w \in IngestWS, m \in ClientMessages : WsReceive(w, m)
    \/ \E w \in IngestWS, m \in ClientMessages : WsReceiveEvent(w, m)
    \/ \E w \in IngestWS : WsDisconnect(w)
    \/ \E w \in IngestWS, status \in {"DISCONNECTED", "ERROR"} : WsReplyFails(w, status)
    \/ \E t \in Tasks : BroadcastStep(t)
    \/ \E c \in Callers, s \in Sessions, p \in EventPayloads :
          SumLen(DOMAIN active_sessions) < MaxIngest /\ ProcessEventCall(c, s, p)
    \/ \E s \in Sessions : FlagSession(s)
    \/ \E s \in Sessions : GetSessionEvents(s)
    \/ Tick

SpecIngest == Init /\ [][NextIngest]_vars

\* The application ingesting payloads whose scores sit on the thresholds of
\* the status ladder: 8 * 1.0 * 1.0 = 8, 10 * 0.9 * 1.0 = 9,
\* 15 * 1.0 * 1.0 = 15, 8 * 1.0 * 2.0 = 16
ScorePayloads ==
    {[type |-> "multiple_faces", confidence |-> 10, severity |-> "MEDIUM"],
     [type |-> "phone_detected", confidence |-> 9, severity |-> "MEDIUM"],
     [type |-> "banned_keywords", confidence |-> 10, severity |-> "MEDIUM"],
     [type |-> "multiple_faces", confidence |-> 10, severity |-> "CRITICAL"]}

NextScore ==
    \/ \E w \in WS, s \in Sessions : WsConnect(w, s)
    \/ \E w \in WS : WsInit(w)
    \/ \E t \in Tasks : BroadcastStep(t)
    \/ \E c \in Callers, s \in Sessions, p \in ScorePayloads :
          SumLen(DOMAIN active_sessions) < MaxScoreEvents /\ ProcessEventCall(c, s, p)
    \/ \E s \in Sessions : FlagSession(s)

SpecScore == Init /\ [][NextScore]_vars

\* The application with NumConcCallers tasks calling process_event for
\* session 1 side by side while its viewer receives the broadcasts
ConcPayloads ==
    {[type |-> "gaze_left"],
     [type |-> "multiple_faces", confidence |-> 9, severity |-> "HIGH"]}

NextConc ==
    \/ \E w \in IngestWS : WsConnect(w, 1)
    \/ \E w \in IngestWS : WsInit(w)
    \/ \E t \in Tasks : BroadcastStep(t)
    \/ \E c \in ConcCallers, p \in ConcPayloads :
          SumLen(DOMAIN active_sessions) < MaxConcEvents /\ ProcessEventCall(c, 1, p)
    \/ Tick

SpecConc == Init /\ [][NextConc]_vars

\* The application ingesting multiple_faces (0.9, HIGH) and gaze_left
\* (0.6, LOW) events for session 1 while the clock advances second by second
E2EPayloads ==
    {[type |-> "multiple_faces", confidence |-> 9, severity |-> "HIGH"],
     [type |-> "gaze_left", confidence |-> 6, severity |-> "LOW"]}

\* datetime.now() advances by one second
TickSecond ==
    /\ now < MaxE2ESeconds
    /\ now' = now + 1
    /\ last_call' = [op |-> "tick"]
    /\ UNCHANGED <<regvars, active_sessions, pc, ws_session, frame, flag_called>>

NextE2E ==
    \/ \E w \in IngestWS : WsConnect(w, 1)
    \/ \E w \in IngestWS : WsInit(w)
    \/ \E t \in Tasks : BroadcastStep(t)
    \/ \E c \in Callers, p \in E2EPayloads :
          SumLen(DOMAIN active_sessions) < MaxE2EEvents /\ ProcessEventCall(c, 1, p)
    \/ TickSecond

SpecE2E == Init /\ [][NextE2E]_vars

\* The application ingesting events for session 1 while the clock moves
\* between the instants around the end of the decay window
WindowTimes ==
    {0, 1, window_seconds - 1, window_seconds, window_seconds + 1}

WindowPayloads ==
    {[type |-> "tab_switch", confidence |-> 10, severity |-> "MEDIUM"],
     [type |-> "gaze_left", confidence |-> 10, severity |-> "MEDIUM"]}

\* datetime.now() advances to a later instant
Advance(t) ==
    /\ t > now
    /\ now' = t
    /\ last_call' = [op |-> "tick"]
    /\ UNCHANGED <<regvars, active_sessions, pc, ws_session, frame, flag_called>>

NextWindow ==
    \/ \E w \in IngestWS : WsConnect(w, 1)
    \/ \E w \in IngestWS : WsInit(w)
    \/ \E t \in Tasks : BroadcastStep(t)
    \/ \E c \in Callers, p \in WindowPayloads :
          SumLen(DOMAIN active_sessions) < MaxWindowEvents /\ ProcessEventCall(c, 1, p)
    \/ \E t \in WindowTimes : Advance(t)

SpecWindow == Init /\ [][NextWindow]_vars

\* The application with NumConcCallers tasks calling process_event for
\* session 1 side by side while NumWS viewers of it receive the broadcasts
OrderPayloads == {[type |-> "gaze_left"]}

NextOrder ==
    \/ \E w \in WS : WsConnect(w, 1)
    \/ \E w \in WS : WsInit(w)
    \/ \E t \in Tasks : BroadcastStep(t)
    \/ \E c \in ConcCallers, p \in OrderPayloads :
          SumLen(DOMAIN active_sessions) < MaxOrderEvents /\ ProcessEventCall(c, 1, p)

SpecOrder == Init /\ [][NextOrder]_vars

\* ============================================================== claims
\* C1: after every ingestion through process_event, whatever confidence and
\* severity the payloads carried, the session's risk_score is an integer
\* with 0 <= risk_score <= 100.
C1_ScoreInRange ==
    \A s \in DOMAIN active_sessions :
        /\ active_sessions[s].risk_score >= 0
        /\ active_sessions[s].risk_score <= 100

\* C2: every WebSocket message of a behavioral type (suspicious_event,
\* MULTIPLE_FACES, HEAD_MOVEMENT, AUDIO_DETECTION, FACE_NOT_DETECTED, UNKNOWN)
\* appends exactly one new event to the events of the handler's session.
C2_BehavioralIngested ==
    [][\A s \in DOMAIN active_sessions :
          (/\ last_call'.op = "process_event"
           /\ last_call'.by = "websocket_endpoint"
           /\ last_call'.sid = s)
          => Len(active_sessions'[s].events) = Len(active_sessions[s].events) + 1]_vars

\* C3: a session_update for session S is delivered only to connections
\* registered to S.
C3_UpdateScoped ==
    (last_call.op = "session_update" /\ last_call.sent)
        => last_call.to_sid = last_call.sid

\* C4: when the ingestion of an event for session S ends, every connection
\* that stayed registered to S during the ingestion has received the
\* session_update of that event.
C4_EveryViewerUpdated ==
    (last_call.op = "session_update" /\ last_call.outcome # "send")
        => last_call.stayed \subseteq last_call.got

\* C5: once a session is FLAGGED, ingesting an event through process_event
\* leaves its status FLAGGED.
C5_FlaggedSticky ==
    [][\A s \in DOMAIN active_sessions :
          (/\ active_sessions[s].status = "FLAGGED"
           /\ last_call'.op = "process_event"
           /\ last_call'.sid = s
           /\ last_call'.appended)
          => active_sessions'[s].status = "FLAGGED"]_vars

\* C6: a viewer connecting or reconnecting, a viewer disconnecting and a
\* handler error all leave a FLAGGED session's status FLAGGED.
C6_FlaggedSurvivesTransport ==
    [][\A s \in DOMAIN active_sessions :
          (/\ active_sessions[s].status = "FLAGGED"
           /\ last_call'.op \in {"connect", "handler_disconnect", "handler_error"}
           /\ last_call'.sid = s)
          => active_sessions'[s].status = "FLAGGED"]_vars

\* C7: in every reachable state a session's status is FLAGGED only if
\* flag_session was called for that session id earlier.
C7_FlaggedOnlyByFlagSession ==
    \A s \in DOMAIN active_sessions :
        active_sessions[s].status = "FLAGGED" => s \in flag_called

\* C7 witness: a session is FLAGGED while another session has been scored
\* into HIGH_RISK by an ingestion
C7_Witness ==
    \E s \in DOMAIN active_sessions :
        /\ active_sessions[s].status = "FLAGGED"
        /\ \E t \in DOMAIN active_sessions :
              /\ t \notin flag_called
              /\ active_sessions[t].status = "HIGH_RISK"
              /\ active_sessions[t].risk_score > 15

\* C8: send_personal_message(S, m) attempts delivery to exactly the
\* connections in active_connections[S], and to no connection registered
\* under another session T, whether by the forward or by the reverse index.
C8_PersonalMessageScoped ==
    last_call.op = "send_personal_message" =>
        /\ last_call.sid \in DOMAIN last_call.pre.ac
              => last_call.attempted = last_call.pre.ac[last_call.sid]
        /\ last_call.sid \notin DOMAIN last_call.pre.ac => last_call.attempted = {}
        /\ \A w \in last_call.attempted, T \in Sessions \ {last_call.sid} :
              /\ ~(T \in DOMAIN last_call.pre.ac /\ w \in last_call.pre.ac[T])
              /\ ~(w \in DOMAIN last_call.pre.cs /\ last_call.pre.cs[w] = T)

\* C8 witness: the call was made with two sessions holding two connections
\* each
C8_Witness ==
    /\ last_call.op = "send_personal_message"
    /\ Cardinality(last_call.attempted) >= 2
    /\ \E T \in DOMAIN last_call.pre.ac \ {last_call.sid} :
          Cardinality(last_call.pre.ac[T]) >= 2

\* C9: in every state reachable by connect, disconnect (in its three forms),
\* disconnect_websocket, send_personal_message and broadcast, websocket w is a
\* member of active_connections[s] if and only if connection_sessions[w] = s.
C9_IndexesAgree ==
    \A w \in RegWS, s \in Sessions :
        (s \in DOMAIN active_connections /\ w \in active_connections[s])
        <=> (w \in DOMAIN connection_sessions /\ connection_sessions[w] = s)

\* C10: in send_personal_message(S, m), when the send to one connection of S
\* fails, every other connection of S is still sent m, the call does not
\* fail, and afterwards the failed connection is in neither
\* active_connections nor connection_sessions.
C10_FailedSendIsolated ==
    last_call.op = "send_personal_message" =>
        /\ ~last_call.raised
        /\ last_call.sid \in DOMAIN last_call.pre.ac
              => last_call.sent = last_call.pre.ac[last_call.sid] \ last_call.failing
        /\ \A w \in last_call.failing :
              /\ \A s \in DOMAIN active_connections : w \notin active_connections[s]
              /\ w \notin DOMAIN connection_sessions

\* C10 witness: one send failed and a sibling of the same session was sent
C10_Witness ==
    /\ last_call.op = "send_personal_message"
    /\ last_call.failing # {}
    /\ last_call.sent # {}

\* C11: in broadcast(m), when the send to one connection fails, every other
\* registered connection of every session is still sent m, the call does not
\* fail, and afterwards exactly the failed connections are gone from both
\* indexes while the connections whose send succeeded remain registered.
C11_BroadcastFailureIsolated ==
    last_call.op = "broadcast" =>
        LET before == UNION {last_call.pre.ac[k] : k \in DOMAIN last_call.pre.ac} IN
        /\ ~last_call.raised
        /\ last_call.sent = before \ last_call.failing
        /\ \A k \in DOMAIN last_call.pre.ac :
              IF last_call.pre.ac[k] \subseteq last_call.failing
              THEN k \notin DOMAIN active_connections
              ELSE /\ k \in DOMAIN active_connections
                   /\ active_connections[k] = last_call.pre.ac[k] \ last_call.failing
        /\ DOMAIN active_connections \subseteq DOMAIN last_call.pre.ac
        /\ DOMAIN connection_sessions = DOMAIN last_call.pre.cs \ last_call.failing
        /\ \A w \in DOMAIN connection_sessions :
              connection_sessions[w] = last_call.pre.cs[w]

\* C11 witness: a broadcast over two sessions in which one send failed, a
\* sibling of the failed connection and a connection of the other session
\* were sent
C11_Witness ==
    /\ last_call.op = "broadcast"
    /\ \E k \in DOMAIN last_call.pre.ac :
          /\ last_call.pre.ac[k] \cap last_call.failing # {}
          /\ last_call.pre.ac[k] \cap last_call.sent # {}
    /\ \E k \in DOMAIN last_call.pre.ac :
          /\ last_call.pre.ac[k] \cap last_call.failing = {}
          /\ last_call.pre.ac[k] # {}

\* C12: disconnect in each of its forms (session id and websocket, session
\* id only, websocket only) and disconnect_websocket, called for a connection
\* or session that is in neither index, leaves both indexes unchanged; and a
\* call that repeats the previous call leaves the registry as the previous
\* call left it.
C12_DisconnectIdempotent ==
    [][/\ (/\ last_call'.op \in {"disconnect", "disconnect_websocket"}
           /\ last_call'.ws # NoneVal
           /\ last_call'.ws \notin DOMAIN connection_sessions
           /\ \A k \in DOMAIN active_connections :
                  last_call'.ws \notin active_connections[k])
          => /\ active_connections' = active_connections
             /\ connection_sessions' = connection_sessions
       /\ (/\ last_call'.op = "disconnect"
           /\ last_call'.ws = NoneVal
           /\ last_call'.sid \notin DOMAIN active_connections)
          => /\ active_connections' = active_connections
             /\ connection_sessions' = connection_sessions
       /\ (/\ last_call.op \in {"disconnect", "disconnect_websocket"}
           /\ last_call'.op = last_call.op
           /\ last_call'.sid = last_call.sid
           /\ last_call'.ws = last_call.ws)
          => /\ active_connections' = active_connections
             /\ connection_sessions' = connection_sessions]_vars

\* C12 witness: disconnect(session_id, websocket) was called for a websocket
\* that had been registered and is in neither index any more, beside a
\* session that still has connections
C12_Witness ==
    /\ last_call.op = "disconnect"
    /\ last_call.ws \in accepted
    /\ last_call.sid \in DOMAIN last_call.pre.ac
    /\ last_call.ws \notin DOMAIN last_call.pre.cs
    /\ \A k \in DOMAIN last_call.pre.ac : last_call.ws \notin last_call.pre.ac[k]
    /\ active_connections = last_call.pre.ac
    /\ connection_sessions = last_call.pre.cs

\* C13: after connect(w, S1) followed by connect(w, S2) with S2 # S1, w is a
\* member of active_connections[S2] only and connection_sessions[w] = S2.
C13_LastRegisteredWins ==
    (/\ last_call.op = "reconnect"
     /\ \E S1 \in DOMAIN last_call.pre.ac :
           S1 # last_call.sid /\ last_call.ws \in last_call.pre.ac[S1])
    => /\ last_call.sid \in DOMAIN active_connections
       /\ last_call.ws \in active_connections[last_call.sid]
       /\ \A k \in DOMAIN active_connections \ {last_call.sid} :
             last_call.ws \notin active_connections[k]
       /\ last_call.ws \in DOMAIN connection_sessions
       /\ connection_sessions[last_call.ws] = last_call.sid

\* C14: send_personal_message(S, m) for a session S that has no connections
\* (its last connection was unregistered, or it never had one) sends nothing,
\* raises nothing and leaves the registry unchanged.
C14_EmptySessionNoOp ==
    (last_call.op = "send_personal_message"
     /\ last_call.sid \notin DOMAIN last_call.pre.ac)
    => /\ last_call.attempted = {}
       /\ ~last_call.raised
       /\ active_connections = last_call.pre.ac
       /\ connection_sessions = last_call.pre.cs
       /\ key_order = last_call.pre.order

\* C14 witness: the call was made for a session without connections after
\* every connection had been registered and some unregistered, another
\* session still holding connections
C14_Witness ==
    /\ last_call.op = "send_personal_message"
    /\ last_call.sid \notin DOMAIN last_call.pre.ac
    /\ last_call.pre.ac # <<>>
    /\ accepted = RegWS
    /\ DOMAIN last_call.pre.cs # RegWS

\* C15: when the persistence write of process_event fails, the session's
\* events, risk_score and status are the values process_event just computed
\* (the old events plus the new one, its score, its classification) and the
\* session_update of the event is broadcast.
C15_PersistenceFailureHarmless ==
    [][\A s \in DOMAIN active_sessions :
          (/\ last_call'.op = "process_event"
           /\ last_call'.sid = s
           /\ last_call'.appended
           /\ last_call'.db_error)
          => LET old == active_sessions[s]
                 new == active_sessions'[s]
             IN /\ Len(new.events) = Len(old.events) + 1
                /\ SubSeq(new.events, 1, Len(old.events)) = old.events
                /\ new.risk_score = calculate_risk_score(new.events, now)
                /\ new.status = (IF new.risk_score > 15 THEN "HIGH_RISK"
                                 ELSE IF new.risk_score > 8 THEN "MODERATE_RISK"
                                 ELSE "LOW_RISK")
                /\ active_connections # <<>> =>
                      \E t \in Tasks :
                         /\ pc[t] # "bcast"
                         /\ pc'[t] = "bcast"
                         /\ frame'[t].msg = [type |-> "session_update", sid |-> s,
                                             event_count |-> Len(new.events)]]_vars

\* C15 witness: an event was appended, its persistence write failed and the
\* broadcast of its session_update is under way to a registered connection
C15_Witness ==
    /\ last_call.op = "process_event"
    /\ last_call.appended
    /\ last_call.db_error
    /\ \E t \in Tasks :
          /\ pc[t] = "bcast"
          /\ frame[t].msg.sid = last_call.sid
          /\ frame[t].pending \in active_connections[last_call.sid]

\* C16: every flag_session call on an existing session sets its status to
\* FLAGGED and then sends session_flagged for that session to the live
\* connections, whatever the outcome of the persistence write.
C16_FlagBroadcasts ==
    (last_call.op = "flag_session" /\ last_call.sid \in DOMAIN active_sessions)
    => /\ active_sessions[last_call.sid].status = "FLAGGED"
       /\ last_call.session_flagged

\* C17: get_session_events and flag_session for a session id that is not in
\* active_sessions answer 404 and change neither active_sessions nor the
\* registry; only a WebSocket connect adds a session to active_sessions.
C17_AdminUnknownSession ==
    [][/\ (/\ last_call'.op \in {"get_session_events", "flag_session"}
           /\ last_call'.sid \notin DOMAIN active_sessions)
          => /\ last_call'.status_code = 404
             /\ active_sessions' = active_sessions
             /\ <<active_connections, connection_sessions, key_order>>'
                  = <<active_connections, connection_sessions, key_order>>
       /\ DOMAIN active_sessions' # DOMAIN active_sessions
          => last_call'.op = "connect"]_vars

\* C17 witness: flag_session answered 404 for an unknown id while another
\* session exists with a live connection
C17_Witness ==
    /\ last_call.op = "flag_session"
    /\ last_call.status_code = 404
    /\ last_call.sid \notin DOMAIN active_sessions
    /\ active_sessions # <<>>
    /\ active_connections # <<>>

\* C18: a WebSocket connect for a session id not in active_sessions creates
\* the session with status ACTIVE, risk_score 0 and no events and the handler
\* goes on; a connect for an id already there leaves the session's events and
\* risk_score as they were.
C18_ConnectResolvesSession ==
    [][last_call'.op = "connect" =>
          LET s == last_call'.sid IN
          /\ s \in DOMAIN active_sessions'
          /\ IF s \notin DOMAIN active_sessions
             THEN active_sessions'[s] =
                     [risk_score |-> 0, status |-> "ACTIVE", events |-> <<>>]
             ELSE /\ active_sessions'[s].events = active_sessions[s].events
                  /\ active_sessions'[s].risk_score = active_sessions[s].risk_score
          /\ \E w \in WS : pc[w] = "new" /\ pc'[w] = "init" /\ ws_session'[w] = s]_vars

\* C18 witness: a websocket connected to a session that already had an event
\* and a positive score
C18_Witness ==
    /\ last_call.op = "connect"
    /\ last_call.sid \in DOMAIN active_sessions
    /\ active_sessions[last_call.sid].events # <<>>
    /\ active_sessions[last_call.sid].risk_score > 0

\* C19: in every reachable state a session whose event list is non-empty
\* does not have status ACTIVE.
C19_ActiveOnlyBeforeFirstEvent ==
    \A s \in DOMAIN active_sessions :
        active_sessions[s].events # <<>> => active_sessions[s].status # "ACTIVE"

\* C20: immediately after process_event ingests an event into a session
\* that is not flagged, the session's status is HIGH_RISK when its new
\* risk_score > 15, MODERATE_RISK when 8 < risk_score <= 15 and LOW_RISK when
\* risk_score <= 8.
C20_StrictThresholds ==
    [][\A s \in DOMAIN active_sessions :
          (/\ last_call'.op = "process_event"
           /\ last_call'.sid = s
           /\ last_call'.appended
           /\ active_sessions[s].status # "FLAGGED")
          => LET score == active_sessions'[s].risk_score
                 status == active_sessions'[s].status
             IN /\ score > 15 => status = "HIGH_RISK"
                /\ (8 < score /\ score <= 15) => status = "MODERATE_RISK"
                /\ score <= 8 => status = "LOW_RISK"]_vars

\* C20 witness: one session was ingested to a score of exactly 8 and is
\* LOW_RISK, another to exactly 16 and is HIGH_RISK
C20_Witness ==
    /\ last_call.op = "process_event"
    /\ last_call.appended
    /\ \E s, t \in DOMAIN active_sessions :
          /\ active_sessions[s].risk_score = 8
          /\ active_sessions[s].status = "LOW_RISK"
          /\ active_sessions[t].risk_score = 16
          /\ active_sessions[t].status = "HIGH_RISK"

\* C21: a heartbeat or ping message is answered with one pong on the same
\* connection and does not enter process_event: the sessions (events,
\* risk_score, status) are unchanged and no broadcast is started.
C21_HeartbeatBypassesPipeline ==
    [][/\ (last_call'.op = "receive" /\ last_call'.msg \in {"heartbeat", "ping"})
          => /\ last_call'.reply = "pong"
             /\ active_sessions' = active_sessions
             /\ frame' = frame
             /\ pc' = pc
             /\ <<active_connections, connection_sessions>>'
                  = <<active_connections, connection_sessions>>
       /\ (last_call'.op = "process_event" /\ last_call'.by = "websocket_endpoint")
          => last_call'.msg \notin {"heartbeat", "ping"}]_vars

\* C21 witness: a ping was answered on a session that has an event, a score
\* and a second viewer
C21_Witness ==
    /\ last_call.op = "receive"
    /\ last_call.msg = "ping"
    /\ last_call.reply = "pong"
    /\ active_sessions[last_call.sid].events # <<>>
    /\ Cardinality(active_connections[last_call.sid]) = 2

\* C22: a JSON message whose type the dispatcher does not know is answered
\* with one message_received acknowledgment and is not scored: the sessions
\* (events, risk_score, status) are unchanged.
C22_UnknownTypeAcknowledged ==
    [][/\ (/\ last_call'.op = "receive"
           /\ last_call'.msg \notin {"heartbeat", "ping", "pong", "non-json"})
          => /\ last_call'.reply = "message_received"
             /\ active_sessions' = active_sessions
             /\ frame' = frame
       /\ (last_call'.op = "process_event" /\ last_call'.by = "websocket_endpoint")
          => last_call'.msg \in {"suspicious_event", "MULTIPLE_FACES", "HEAD_MOVEMENT",
                                 "AUDIO_DETECTION", "FACE_NOT_DETECTED", "UNKNOWN"}]_vars

\* C22 witness: a gaze_left message was acknowledged on a session that has an
\* event and a positive score
C22_Witness ==
    /\ last_call.op = "receive"
    /\ last_call.msg = "gaze_left"
    /\ last_call.reply = "message_received"
    /\ active_sessions[last_call.sid].risk_score > 0

\* C23: a payload that is not JSON is answered with one error message, does
\* not enter process_event (sessions unchanged), and the connection stays
\* open with its registration untouched: its handler is still in the receive
\* loop and both registry indexes are unchanged.
C23_NonJsonKeepsConnection ==
    [][(last_call'.op = "receive" /\ last_call'.msg = "non-json")
          => /\ last_call'.reply = "error"
             /\ active_sessions' = active_sessions
             /\ frame' = frame
             /\ pc' = pc
             /\ <<active_connections, connection_sessions>>'
                  = <<active_connections, connection_sessions>>
             /\ \E w \in WS :
                   /\ ws_session[w] = last_call'.sid
                   /\ pc[w] = "recv"
                   /\ pc'[w] = "recv"]_vars

\* C23 witness: a payload that is not JSON was answered with an error on a
\* session that has an event
C23_Witness ==
    /\ last_call.op = "receive"
    /\ last_call.msg = "non-json"
    /\ last_call.reply = "error"
    /\ active_sessions[last_call.sid].events # <<>>
    /\ \E w \in WS : /\ pc[w] = "recv"
                     /\ w \in DOMAIN connection_sessions
                     /\ connection_sessions[w] = last_call.sid

\* C24: when the handler of a connection ends through the disconnect
\* handling, the connection is in neither registry index, the events and
\* risk_score of every session are unchanged and every other connection keeps
\* its registration.
C24_DisconnectRemovesOnlyItself ==
    [][\A w \in WS :
          (pc[w] # "closed" /\ pc'[w] = "closed")
          => /\ \A k \in DOMAIN active_connections' : w \notin active_connections'[k]
             /\ w \notin DOMAIN connection_sessions'
             /\ \A s \in DOMAIN active_sessions :
                   /\ active_sessions'[s].events = active_sessions[s].events
                   /\ active_sessions'[s].risk_score = active_sessions[s].risk_score
             /\ \A k \in DOMAIN active_connections :
                   \A x \in active_connections[k] \ {w} :
                      /\ k \in DOMAIN active_connections'
                      /\ x \in active_connections'[k]
             /\ \A x \in DOMAIN connection_sessions \ {w} :
                   /\ x \in DOMAIN connection_sessions'
                   /\ connection_sessions'[x] = connection_sessions[x]]_vars

\* C24 witness: a viewer disconnected from a session that has an event while
\* another viewer of the same session stays registered
C24_Witness ==
    /\ last_call.op = "handler_disconnect"
    /\ last_call.sid \in DOMAIN active_connections
    /\ active_connections[last_call.sid] # {}
    /\ active_sessions[last_call.sid].events # <<>>

\* C30: once the websocket_endpoint handler of a connection has terminated,
\* on any exit path, the connection is in neither registry index.
C30_TerminatedHandlerUnregistered ==
    \A w \in WS :
        pc[w] \in {"closed", "dead"}
        => /\ \A k \in DOMAIN active_connections : w \notin active_connections[k]
           /\ w \notin DOMAIN connection_sessions

\* C25: two process_event runs for one session are never in progress at the
\* same time: no run appends its event while another run for the same session
\* is still inside its broadcast.
C25_IngestionSerialized ==
    [][(last_call'.op = "process_event" /\ last_call'.appended)
          => \A t \in Tasks :
                ~(pc[t] = "bcast" /\ frame[t].msg.sid = last_call'.sid)]_vars

\* C26: no update is lost when process_event runs overlap: the event list
\* only grows at its end, every run that appends adds exactly its own event
\* and leaves the risk_score and status computed over the full list, and no
\* other step touches the list or the score.
C26_NoLostUpdate ==
    [][\A s \in DOMAIN active_sessions :
          LET old == active_sessions[s]
              new == active_sessions'[s]
              n == Len(old.events)
          IN IF last_call'.op = "process_event" /\ last_call'.appended
                /\ last_call'.sid = s
             THEN /\ Len(new.events) = n + 1
                  /\ SubSeq(new.events, 1, n) = old.events
                  /\ new.events[n + 1].event_type = last_call'.msg
                  /\ new.events[n + 1].timestamp = now
                  /\ new.risk_score = calculate_risk_score(new.events, now)
                  /\ new.status = IF new.risk_score > 15 THEN "HIGH_RISK"
                                  ELSE IF new.risk_score > 8 THEN "MODERATE_RISK"
                                  ELSE "LOW_RISK"
             ELSE /\ new.events = old.events
                  /\ new.risk_score = old.risk_score]_vars

\* C26 witness: a run appended the third event while the run that appended
\* the first one was still inside its broadcast
C26_Witness ==
    /\ last_call.op = "process_event"
    /\ last_call.appended
    /\ Len(active_sessions[last_call.sid].events) = 3
    /\ active_sessions[last_call.sid].risk_score > 0
    /\ \E t \in Tasks : /\ pc[t] = "bcast"
                       /\ frame[t].msg.sid = last_call.sid
                       /\ frame[t].msg.event_count = 1

\* C27: a session that ingested one multiple_faces event (0.9, HIGH) and then
\* three gaze_left events (0.6, LOW) within one second has risk_score 12 and
\* status MODERATE_RISK when the fourth run has appended.
C27_EndToEndScore ==
    \A s \in DOMAIN active_sessions :
       LET ev == active_sessions[s].events IN
       (/\ last_call.op = "process_event"
        /\ last_call.appended
        /\ last_call.sid = s
        /\ Len(ev) = 4
        /\ ev[1].event_type = "multiple_faces"
        /\ ev[1].confidence = 9
        /\ ev[1].severity = "HIGH"
        /\ \A i \in 2..4 : /\ ev[i].event_type = "gaze_left"
                           /\ ev[i].confidence = 6
                           /\ ev[i].severity = "LOW"
        /\ ev[4].timestamp - ev[1].timestamp <= 1)
       => /\ active_sessions[s].risk_score = 12
          /\ active_sessions[s].status = "MODERATE_RISK"

\* C27 witness: the four events were ingested, the last one second after the
\* first, and the score is 12
C27_Witness ==
    /\ last_call.op = "process_event"
    /\ last_call.appended
    /\ 1 \in DOMAIN active_sessions
    /\ Len(active_sessions[1].events) = 4
    /\ active_sessions[1].events[1].event_type = "multiple_faces"
    /\ \A i \in 2..4 : active_sessions[1].events[i].event_type = "gaze_left"
    /\ active_sessions[1].events[4].timestamp
          - active_sessions[1].events[1].timestamp = 1
    /\ active_sessions[1].risk_score = 12
    /\ active_sessions[1].status = "MODERATE_RISK"

\* C28: the score a process_event run leaves is the score over the events
\* younger than the decay window alone: an event whose age is exactly the
\* window, or more, adds nothing, and every event is weighted with a time
\* factor max(0.3, 1 - elapsed / window) of at least 0.3.
C28_WindowBoundaryExcluded ==
    \A s \in DOMAIN active_sessions :
       (last_call.op = "process_event" /\ last_call.appended /\ last_call.sid = s)
       => LET ev == active_sessions[s].events
              younger == SelectSeq(ev, LAMBDA e : now - e.timestamp < window_seconds)
          IN /\ active_sessions[s].risk_score
                  = Min(int_trunc(base_score(younger, now)
                                  + calculate_frequency_penalties(younger)), 100)
             /\ \A i \in 1..Len(younger) :
                   LET elapsed == now - younger[i].timestamp IN
                   /\ time_factor(elapsed) >= 3 * window_seconds
                   /\ time_factor(elapsed)
                        = IF 10 * (window_seconds - elapsed) >= 3 * window_seconds
                          THEN 10 * (window_seconds - elapsed)
                          ELSE 3 * window_seconds

\* C29: the score a process_event run leaves holds, on top of the base sum,
\* a frequency penalty of weight * (count - 3) * 0.5 for every event type
\* with more than 3 events younger than the decay window, and nothing for
\* the other types; events outside the window are not counted.
C29_FrequencyPenalty ==
    \A s \in DOMAIN active_sessions :
       (last_call.op = "process_event" /\ last_call.appended /\ last_call.sid = s)
       => LET ev == active_sessions[s].events
              count(t) == Cardinality({i \in 1..Len(ev) :
                                          /\ ev[i].event_type = t
                                          /\ now - ev[i].timestamp < window_seconds})
              penalty[T \in SUBSET EventTypeValues] ==
                  IF T = {} THEN 0
                  ELSE LET t == CHOOSE x \in T : TRUE IN
                       (IF count(t) > 3
                        THEN (event_weights(t) * (count(t) - 3) * ScoreDen) \div 2
                        ELSE 0) + penalty[T \ {t}]
          IN active_sessions[s].risk_score
               = Min(int_trunc(base_score(recent_events(ev, now), now)
                               + penalty[{ev[i].event_type : i \in 1..Len(ev)}]), 100)

\* C31: a broadcast suspended at a send while handlers register or
\* unregister connections never raises, and when it completes it has reached
\* every connection of the message's session that was registered at its
\* start and is still registered.
C31_SuspendedBroadcastCompletes ==
    [][last_call'.op = "session_update"
          => /\ last_call'.outcome # "RuntimeError"
             /\ last_call'.outcome = "done"
                => last_call'.stayed \subseteq last_call'.got]_vars

\* C32: an event_processed acknowledgment is sent only for a message whose
\* event was appended and scored: a process_event run that ends without
\* appending is followed by no event_processed acknowledgment.
C32_AckOnlyWhenAppended ==
    [][(last_call'.op = "process_event" /\ ~last_call'.appended)
          => last_call'.reply # "event_processed"]_vars

\* C33: a session has status DISCONNECTED only while no live connection of
\* it is in the registry.
C33_DisconnectedMeansNoViewer ==
    \A s \in DOMAIN active_sessions :
        active_sessions[s].status = "DISCONNECTED" => ~is_session_connected(Reg, s)

\* C34: a connection receives the session_update messages of a session in
\* the order of the appends, with strictly increasing event_count: no
\* session_update is delivered to a connection that a run of the same session
\* with a larger or equal event_count, still in its broadcast, has already
\* reached.
C34_UpdatesInAppendOrder ==
    [][\A t \in Tasks :
          (/\ pc[t] = "bcast"
           /\ frame'[t] # frame[t]
           /\ last_call'.op = "session_update"
           /\ last_call'.sent)
          => \A u \in Tasks \ {t} :
                (/\ pc[u] = "bcast"
                 /\ frame[u].msg.sid = frame[t].msg.sid
                 /\ frame[t].pending \in frame[u].got)
                => frame[u].msg.event_count < frame[t].msg.event_count]_vars

====
